---- MODULE Spec2Model ----
\* A model of olx.py: a browser-driven scraper that walks the result pages of
\* a listing site, downloads one image per card with a bounded retry loop and
\* exports the collected records to a spreadsheet.
\*
\* Texts (Python str) are modelled as sequences of character tokens, so that
\* str.replace, str.split, int() and str() are computed and not assumed.
EXTENDS Integers, Sequences, FiniteSets, TLC

VARIABLES
    pc,               \* position of the single thread of control
    driver,           \* "none" | "started" | "quit"
    quits,            \* number of driver.quit() calls made
    exc,              \* exception propagating out of the current frame, or "none"
    log,              \* history: driver.get requests and card loops, in order
    pagination,       \* what line 72 found: whether read, whether present, last item's text
    number_of_pages,  \* local of scrape_olx (0 while unassigned)
    page,             \* loop variable of line 80
    grow,             \* times the page still gets taller while being scrolled
    ncards,           \* len(cards) of the current page
    ci,               \* index of the current card in cards
    tally,            \* history: how many cards ended in each way
    dl,               \* download_image called on its own: arguments, attempts made, result
    responses,        \* download_image called on its own: what each requests.get would answer
    dirs,             \* directories that exist on disk
    fs,               \* file path -> content (NoFile when absent)
    data,             \* list of records built by scrape_olx
    fetched,          \* history: bytes written for each record of data, in order
    wb,               \* in-memory worksheet of save_to_excel
    xi,               \* index of the current entry in save_to_excel's loop
    xlsx              \* the saved spreadsheet file, or NoBook

vars == <<pc, driver, quits, exc, log, pagination, number_of_pages, page, grow,
          ncards, ci, tally, dl, responses, dirs, fs, data, fetched, wb, xi, xlsx>>

----------------------------------------------------------------------------
\* Bounds of the model

MaxRetries == 3    \* largest retries argument tried on download_image alone
MaxPages == 2      \* largest page count the pagination element reports
MaxCards == 1      \* most cards found on one page
MaxGrow == 1       \* most times a page grows while being scrolled
MaxLen == 2        \* longest record list handed to save_to_excel alone

\* Program constants
RETRIES == 5
IMG_WIDTH == 215
IMG_HEIGHT == 152

----------------------------------------------------------------------------
\* Texts

IMAGE_DIR == <<"images">>
Empty == << >>

RECURSIVE Replace(_, _, _)
\* str.replace(old, new) for a one-character old
Replace(s, old, new) ==
    IF s = << >> THEN << >>
    ELSE <<(IF Head(s) = old THEN new ELSE Head(s))>> \o Replace(Tail(s), old, new)

RECURSIVE Split(_, _)
\* str.split(sep): the list of pieces between occurrences of the token sep
Split(s, sep) ==
    IF s = << >> THEN << << >> >>
    ELSE IF Head(s) = sep THEN << << >> >> \o Split(Tail(s), sep)
    ELSE LET rest == Split(Tail(s), sep)
         IN  << <<Head(s)>> \o Head(rest) >> \o Tail(rest)

Digits == <<"0", "1", "2", "3", "4", "5", "6", "7", "8", "9">>

IsDigit(c) == \E i \in 1..10 : Digits[i] = c
DigitVal(c) == (CHOOSE i \in 1..10 : Digits[i] = c) - 1

RECURSIVE ParseFrom(_, _)
ParseFrom(s, acc) ==
    IF s = << >> THEN acc
    ELSE IF ~IsDigit(Head(s)) THEN -1
    ELSE ParseFrom(Tail(s), acc * 10 + DigitVal(Head(s)))

\* int(text): the value of a decimal text, -1 where int() raises ValueError
ParseInt(s) == IF s = << >> THEN -1 ELSE ParseFrom(s, 0)

RECURSIVE ToText(_)
\* str(n) for n >= 0
ToText(n) == IF n < 10 THEN <<Digits[n + 1]>>
             ELSE ToText(n \div 10) \o <<Digits[(n % 10) + 1]>>

\* os.path.join(IMAGE_DIR, f"{name.replace(' ', '_')}.jpg")
Filename(name) == IMAGE_DIR \o <<"/">> \o Replace(name, " ", "_") \o <<".jpg">>

RECURSIVE DirOf(_)
\* the directory part of a path: everything before its last "/"
DirOf(path) ==
    IF path = << >> THEN << >>
    ELSE IF path[Len(path)] = "/" THEN SubSeq(path, 1, Len(path) - 1)
    ELSE DirOf(SubSeq(path, 1, Len(path) - 1))

----------------------------------------------------------------------------
\* The environment: what the site and the disk can hold

Names == { <<"a", " ", "b">>, <<"a", "_", "b">>, <<"a", "/", "b">>, <<"c">> }

Paths == { Filename(n) : n \in Names }

Bytes == {"img1", "img2"}
NoFile == "absent"
OldBytes == "old"

\* the ways a card can end: its extraction failed ("none": download_image was
\* not called), or download_image returned True, returned False, or raised
Outcomes == {"none", "True", "False", "raised"}
NoTally == [o \in Outcomes |-> 0]

\* the cards the site may show; a broken card lacks one of the elements
\* that lines 84-89 look up
Cards ==
    { [broken |-> FALSE, name |-> <<"a", " ", "b">>, price |-> <<"1", "0">>,
       loc_date |-> <<"K", " - ", "T">>, src |-> <<"s", "1">>, href |-> <<"h", "1">>],
      [broken |-> FALSE, name |-> <<"a", "_", "b">>, price |-> <<"2", "0">>,
       loc_date |-> <<"L">>, src |-> <<"s", "2">>, href |-> <<"h", "2">>],
      [broken |-> FALSE, name |-> <<"a", "/", "b">>, price |-> <<"4", "0">>,
       loc_date |-> <<"K", " - ", "L", " - ", "T">>, src |-> <<"s", "4">>, href |-> <<"h", "4">>],
      [broken |-> FALSE, name |-> <<"c">>, price |-> <<"5", "0">>,
       loc_date |-> <<"K", " - ", "T">>, src |-> <<"s", "5">>, href |-> <<"h", "5">>],
      [broken |-> TRUE, name |-> <<"c">>, price |-> Empty,
       loc_date |-> Empty, src |-> Empty, href |-> Empty] }

\* texts the last pagination item may show; the empty text is an item
\* that int() cannot read
PageTexts == { ToText(k) : k \in 1..MaxPages } \cup { Empty }

websitelink == <<"link">>

\* the pagination list before line 72 has looked at it, and when it is not there
Unread == [read |-> FALSE, present |-> FALSE, text |-> Empty]
Absent == [read |-> TRUE, present |-> FALSE, text |-> Empty]
Found(t) == [read |-> TRUE, present |-> TRUE, text |-> t]

NoCall == [image_url |-> Empty, filename |-> Empty, retries |-> 0, attempts |-> 0,
           result |-> "none"]
NoBook == [rows |-> << >>, images |-> << >>, heights |-> << >>, widths |-> << >>,
           title |-> Empty]

\* the content of an answer that carries no image
NoContent == "none"

\* the images a URL may serve: each card's src serves that listing's image,
\* any other URL serves any image
ImagesAt(url) ==
    IF url \in { <<"s", "1">>, <<"s", "5">> } THEN {"img1"}
    ELSE IF url \in { <<"s", "2">>, <<"s", "4">> } THEN {"img2"}
    ELSE Bytes

\* what one requests.get can produce: a network error (RequestException),
\* a non-200 status, or status 200 with some content
Responses(url) ==
    { [raised |-> TRUE, status_code |-> 0, content |-> NoContent],
      [raised |-> FALSE, status_code |-> 404, content |-> NoContent] }
    \cup { [raised |-> FALSE, status_code |-> 200, content |-> b] : b \in ImagesAt(url) }

----------------------------------------------------------------------------
\* download_image (lines 48-62)

\* open(filename, 'wb') succeeds when the directory of filename exists
CanOpen(filename) == DirOf(filename) \in dirs

\* the range one short: the last attempt is never made
MoreAttemptsOneShort(attempt, retries) == attempt + 1 < retries

\* line 50: range(retries) still has an attempt to give
MoreAttempts(attempt, retries) == attempt < retries

\* line 53, on a response that requests.get returned
IsSuccess(r) == ~r.raised /\ r.status_code = 200

RECURSIVE RetryLoop(_, _, _, _, _)
\* lines 50-62 from iteration `attempt` on: rs[i] is what the i-th
\* requests.get answers, files the disk; the value is what the call ends
\* with, the number of GETs it made and the disk it leaves
RetryLoop(attempt, filename, retries, rs, files) ==
    IF ~MoreAttempts(attempt, retries)
    THEN [result |-> "False", attempts |-> attempt, fs |-> files]
    ELSE IF IsSuccess(rs[attempt + 1])
    THEN IF CanOpen(filename)
         THEN [result |-> "True", attempts |-> attempt + 1,
               fs |-> [files EXCEPT ![filename] = rs[attempt + 1].content]]
         ELSE [result |-> "raised", attempts |-> attempt + 1, fs |-> files]
    ELSE RetryLoop(attempt + 1, filename, retries, rs, files)

\* download_image(image_url, filename, retries), lines 48-62
DownloadImage(filename, retries, rs, files) == RetryLoop(0, filename, retries, rs, files)

\* what the requests.get calls of one download_image call may answer
Answers(url, retries) == [1..retries -> Responses(url)]

\* the answers one call can get to see: the return of line 56 ends the call,
\* so nothing is requested after the first status 200
Exchanges(url, retries) ==
    { rs \in UNION { Answers(url, n) : n \in 0..retries } :
        /\ \A i \in 1..(Len(rs) - 1) : ~IsSuccess(rs[i])
        /\ Len(rs) < retries => Len(rs) > 0 /\ IsSuccess(rs[Len(rs)]) }

\* the exchanges of scrape_olx's call for each card that has its elements
CardExchanges == [c \in { k \in Cards : ~k.broken } |-> Exchanges(c.src, RETRIES)]

\* one call of download_image, lines 48-62
Download ==
    /\ pc = "dl"
    /\ LET out == DownloadImage(dl.filename, dl.retries, responses, fs)
       IN  /\ dl' = [dl EXCEPT !.attempts = out.attempts, !.result = out.result]
           /\ fs' = out.fs
           /\ exc' = IF out.result = "raised" THEN "OSError" ELSE exc
    /\ pc' = "dlret"
    /\ UNCHANGED <<driver, quits, log, pagination, number_of_pages, page, grow,
                   ncards, ci, tally, responses, dirs, data, fetched, wb, xi, xlsx>>

\* download_image called on its own: any retries, any target path, the image
\* directory present, the target absent or holding older bytes
InitDL ==
    /\ pc = "dl"
    /\ driver = "none" /\ quits = 0 /\ exc = "none" /\ log = << >>
    /\ pagination = Unread /\ number_of_pages = 0 /\ page = 0 /\ grow = 0
    /\ ncards = 0 /\ ci = 0 /\ tally = NoTally
    /\ \E n \in Names, r \in 0..MaxRetries :
         dl = [NoCall EXCEPT !.image_url = <<"s">>, !.filename = Filename(n),
                             !.retries = r]
    /\ responses \in Answers(dl.image_url, dl.retries)
    /\ dirs = {IMAGE_DIR}
    /\ \E old \in {NoFile, OldBytes} : fs = [p \in Paths |-> IF p = dl.filename THEN old ELSE NoFile]
    /\ data = << >> /\ fetched = << >>
    /\ wb = NoBook /\ xi = 0 /\ xlsx = NoBook

NextDL == Download

SpecDL == InitDL /\ [][NextDL]_vars

----------------------------------------------------------------------------
\* scrape_olx (lines 65-109)

\* the next page's URL built from the number of the page being left
PageUrlStale(k) == IF k = 1 THEN websitelink ELSE websitelink \o <<"&page=">> \o ToText(k - 1)

\* the URL of page k: the link itself for the first page, line 105 for the others
PageUrl(k) == IF k = 1 THEN websitelink ELSE websitelink \o <<"&page=">> \o ToText(k)

\* entries of log: a driver.get, the n cards of a page being looked up, the
\* card loop of a page finished after n cards
GetEvent(url) == [op |-> "get", url |-> url, page |-> 0, n |-> 0]
CardsEvent(k, n) == [op |-> "cards", url |-> Empty, page |-> k, n |-> n]
DoneEvent(k, n) == [op |-> "done", url |-> Empty, page |-> k, n |-> n]

\* lines 67-68: load the link and wait for the cards
ScrapeGet ==
    /\ pc = "get"
    /\ log' = Append(log, GetEvent(websitelink))
    /\ \E loaded \in BOOLEAN :
        IF loaded
        THEN /\ \E g \in 0..MaxGrow : grow' = g
             /\ pc' = "scroll"
             /\ exc' = exc
        ELSE /\ grow' = grow
             /\ pc' = "finally"
             /\ exc' = "TimeoutException"
    /\ UNCHANGED <<driver, quits, pagination, number_of_pages, page, ncards, ci,
                   tally, dl, responses, dirs, fs, data, fetched, wb, xi, xlsx>>

\* slow_scroll_page, lines 28-45: scroll to the bottom until the height stops
\* changing; control then returns to line 72 or to the for statement of line 80
ScrollStep ==
    /\ pc = "scroll"
    /\ IF grow > 0
       THEN /\ grow' = grow - 1
            /\ UNCHANGED <<pc, page>>
       ELSE /\ grow' = grow
            /\ IF pagination = Unread
               THEN pc' = "pages" /\ page' = page
               ELSE pc' = "loop" /\ page' = page + 1
    /\ UNCHANGED <<driver, quits, exc, log, pagination, number_of_pages, ncards, ci,
                   tally, dl, responses, dirs, fs, data, fetched, wb, xi, xlsx>>

\* line 73
NumberOfPages(pg) == IF pg.present THEN ParseInt(pg.text) ELSE 1

\* lines 72-78: read the page count, start the list, make the image directory
ReadPages ==
    /\ pc = "pages"
    /\ \E pg \in {Absent} \cup { Found(t) : t \in PageTexts } :
        /\ pagination' = pg
        /\ IF NumberOfPages(pg) < 0
           THEN /\ exc' = "ValueError"
                /\ pc' = "finally"
                /\ UNCHANGED <<number_of_pages, page, data, fetched, dirs>>
           ELSE /\ number_of_pages' = NumberOfPages(pg)
                /\ data' = << >>
                /\ fetched' = << >>
                /\ dirs' = dirs \cup {IMAGE_DIR}
                /\ page' = 1
                /\ pc' = "loop"
                /\ exc' = exc
    /\ UNCHANGED <<driver, quits, log, grow, ncards, ci, tally, dl, responses, fs,
                   wb, xi, xlsx>>

\* lines 80-81: the next page of the range; its cards are looked up
LoopPage ==
    /\ pc = "loop"
    /\ page <= number_of_pages
    /\ \E n \in 1..MaxCards :
        /\ ncards' = n
        /\ log' = Append(log, CardsEvent(page, n))
    /\ ci' = 1
    /\ pc' = "card"
    /\ UNCHANGED <<driver, quits, exc, pagination, number_of_pages, page, grow,
                   tally, dl, responses, dirs, fs, data, fetched, wb, xi, xlsx>>

\* line 87
LocationTime(text) ==
    LET location_time == Split(text, " - ")
    IN  IF Len(location_time) = 2 THEN location_time ELSE <<Empty, Empty>>

\* lines 93-100
Record(c, img_filename) ==
    [Name |-> c.name, Price |-> c.price,
     Location |-> LocationTime(c.loc_date)[1],
     TimePosted |-> LocationTime(c.loc_date)[2],
     ImageFile |-> img_filename, AdURL |-> c.href]

\* the record appended whatever download_image returned
DownloadedIgnored(result) == TRUE

\* the condition of line 92
Downloaded(result) == result = "True"

\* lines 82-102: the next card. Its fields are extracted, download_image is
\* called and a record is appended when it returned True; a failed extraction
\* and whatever download_image raised are caught at line 101 and printed
CardStep ==
    /\ pc = "card"
    /\ IF ci > ncards
       THEN /\ log' = Append(log, DoneEvent(page, ci - 1))
            /\ pc' = "nextpage"
            /\ UNCHANGED <<ci, tally, fs, data, fetched>>
       ELSE /\ \E c \in Cards :
                IF c.broken
                THEN /\ tally' = [tally EXCEPT !["none"] = @ + 1]
                     /\ UNCHANGED <<fs, data, fetched>>
                ELSE \E rs \in CardExchanges[c] :
                     LET img_filename == Filename(c.name)
                         out == DownloadImage(img_filename, RETRIES, rs, fs)
                     IN  /\ fs' = out.fs
                         /\ tally' = [tally EXCEPT ![out.result] = @ + 1]
                         /\ IF Downloaded(out.result)
                            THEN /\ data' = Append(data, Record(c, img_filename))
                                 /\ fetched' = Append(fetched, rs[out.attempts].content)
                            ELSE UNCHANGED <<data, fetched>>
            /\ ci' = ci + 1
            /\ UNCHANGED <<pc, log>>
    /\ UNCHANGED <<driver, quits, exc, pagination, number_of_pages, page, grow,
                   ncards, dl, responses, dirs, wb, xi, xlsx>>

\* the last page taken to have a next one
HasNextPageInclusive(p, n) == p <= n

\* the condition of line 104
HasNextPage(p, n) == p < n

\* lines 104-107: load the next page when there is one
NextPage ==
    /\ pc = "nextpage"
    /\ IF HasNextPage(page, number_of_pages)
       THEN /\ log' = Append(log, GetEvent(PageUrl(page + 1)))
            /\ \E loaded \in BOOLEAN :
                IF loaded
                THEN /\ \E g \in 0..MaxGrow : grow' = g
                     /\ pc' = "scroll"
                     /\ exc' = exc
                ELSE /\ grow' = grow
                     /\ pc' = "finally"
                     /\ exc' = "TimeoutException"
            /\ page' = page
       ELSE /\ page' = page + 1
            /\ pc' = "loop"
            /\ UNCHANGED <<log, grow, exc>>
    /\ UNCHANGED <<driver, quits, pagination, number_of_pages, ncards, ci, tally,
                   dl, responses, dirs, fs, data, fetched, wb, xi, xlsx>>

\* line 109 and line 141: the range is exhausted, data goes to save_to_excel
ScrapeReturn ==
    /\ pc = "loop"
    /\ page > number_of_pages
    /\ pc' = "xl"
    /\ UNCHANGED <<driver, quits, exc, log, pagination, number_of_pages, page, grow,
                   ncards, ci, tally, dl, responses, dirs, fs, data, fetched, wb,
                   xi, xlsx>>

----------------------------------------------------------------------------
\* save_to_excel (lines 112-133)

headers == << <<"N","a","m","e">>, <<"P","r","i","c","e">>,
              <<"L","o","c","a","t","i","o","n">>,
              <<"T","i","m","e"," ","P","o","s","t","e","d">>,
              <<"I","m","a","g","e">>, <<"A","d"," ","U","R","L">> >>

\* the Price and Location cells exchanged
RowSwapped(entry) == <<entry.Name, entry.Location, entry.Price, entry.TimePosted,
                       Empty, entry.AdURL>>

\* line 121
Row(entry) == <<entry.Name, entry.Price, entry.Location, entry.TimePosted,
                Empty, entry.AdURL>>

\* Image(path) of line 123 reads the file
Loadable(path) == path \in DOMAIN fs /\ fs[path] # NoFile

Max(S) == CHOOSE m \in S : \A x \in S : x <= m

\* lines 128-130
Widths(rows) == [j \in 1..Len(headers) |->
                    Max({ Len(rows[i][j]) : i \in 1..Len(rows) }) + 2]

\* lines 114-118
XlStart ==
    /\ pc = "xl"
    /\ wb' = [rows |-> <<headers>>, images |-> << >>, heights |-> << >>,
              widths |-> << >>, title |-> <<"Ad Data">>]
    /\ xi' = 1
    /\ pc' = "xlrow"
    /\ UNCHANGED <<driver, quits, exc, log, pagination, number_of_pages, page, grow,
                   ncards, ci, tally, dl, responses, dirs, fs, data, fetched, xlsx>>

\* lines 120-126: one entry becomes one row with its image anchored in column E
XlEntry ==
    /\ pc = "xlrow"
    /\ xi <= Len(data)
    /\ LET entry == data[xi]
           rows == Append(wb.rows, Row(entry))
           max_row == Len(rows)
       IN  IF Loadable(entry.ImageFile)
           THEN /\ wb' = [wb EXCEPT
                            !.rows = rows,
                            !.images = Append(@, [file |-> entry.ImageFile,
                                                  width |-> IMG_WIDTH,
                                                  height |-> IMG_HEIGHT,
                                                  anchor |-> <<"E", max_row>>]),
                            !.heights = Append(@, <<max_row, IMG_HEIGHT>>)]
                /\ xi' = xi + 1
                /\ UNCHANGED <<pc, exc>>
           ELSE /\ wb' = [wb EXCEPT !.rows = rows]
                /\ xi' = xi
                /\ exc' = "FileNotFoundError"
                /\ pc' = "xlraised"
    /\ UNCHANGED <<driver, quits, log, pagination, number_of_pages, page, grow,
                   ncards, ci, tally, dl, responses, dirs, fs, data, fetched, xlsx>>

\* lines 128-132: size the columns and write the file
XlSave ==
    /\ pc = "xlrow"
    /\ xi > Len(data)
    /\ wb' = [wb EXCEPT !.widths = Widths(wb.rows)]
    /\ \E written \in BOOLEAN :
        IF written
        THEN /\ xlsx' = wb'
             /\ pc' = "xlret"
             /\ exc' = exc
        ELSE /\ xlsx' = xlsx
             /\ pc' = "xlraised"
             /\ exc' = "OSError"
    /\ UNCHANGED <<driver, quits, log, pagination, number_of_pages, page, grow,
                   ncards, ci, tally, dl, responses, dirs, fs, data, fetched, xi>>

----------------------------------------------------------------------------
\* main (lines 136-143)

\* lines 137-138: the link is read and the browser is started
MainStart ==
    /\ pc = "main"
    /\ \E started \in BOOLEAN :
        IF started
        THEN driver' = "started" /\ pc' = "get" /\ exc' = exc
        ELSE driver' = driver /\ pc' = "end" /\ exc' = "WebDriverException"
    /\ UNCHANGED <<quits, log, pagination, number_of_pages, page, grow, ncards, ci,
                   tally, dl, responses, dirs, fs, data, fetched, wb, xi, xlsx>>

\* lines 142-143: the finally clause, reached when scrape_olx raised and when
\* save_to_excel returned or raised
\* driver.quit placed after save_to_excel instead of in a finally clause
RunsFinallyOnSuccess(p) == p = "xlret"

\* the states from which control enters the finally clause
RunsFinally(p) == p \in {"finally", "xlret", "xlraised"}

MainFinally ==
    /\ RunsFinally(pc)
    /\ driver' = "quit"
    /\ quits' = quits + 1
    /\ pc' = "end"
    /\ UNCHANGED <<exc, log, pagination, number_of_pages, page, grow, ncards, ci,
                   tally, dl, responses, dirs, fs, data, fetched, wb, xi, xlsx>>

Init ==
    /\ pc = "main"
    /\ driver = "none" /\ quits = 0 /\ exc = "none" /\ log = << >>
    /\ pagination = Unread /\ number_of_pages = 0 /\ page = 0 /\ grow = 0
    /\ ncards = 0 /\ ci = 0 /\ tally = NoTally
    /\ dl = NoCall /\ responses = << >>
    /\ dirs \in {{}, {IMAGE_DIR}}
    /\ fs = [p \in Paths |-> NoFile]
    /\ data = << >> /\ fetched = << >>
    /\ wb = NoBook /\ xi = 0 /\ xlsx = NoBook

Next ==
    \/ MainStart
    \/ ScrapeGet
    \/ ScrollStep
    \/ ReadPages
    \/ LoopPage
    \/ CardStep
    \/ NextPage
    \/ ScrapeReturn
    \/ XlStart
    \/ XlEntry
    \/ XlSave
    \/ MainFinally

Spec == Init /\ [][Next]_vars

\* the same program under the scheduling of a sequential process: a step that
\* can be taken is taken
FairSpec == Spec /\ WF_vars(Next)

\* save_to_excel called on its own: any list of records of at most MaxLen
\* entries, each image file present on disk or not
InitXL ==
    /\ pc = "xl"
    /\ driver = "none" /\ quits = 0 /\ exc = "none" /\ log = << >>
    /\ pagination = Unread /\ number_of_pages = 0 /\ page = 0 /\ grow = 0
    /\ ncards = 0 /\ ci = 0 /\ tally = NoTally
    /\ dl = NoCall /\ responses = << >>
    /\ dirs = {IMAGE_DIR}
    /\ fs \in [Paths -> {NoFile, OldBytes}]
    /\ \E len \in 0..MaxLen :
         data \in [1..len -> { Record(c, Filename(c.name)) : c \in {k \in Cards : ~k.broken} }]
    /\ fetched = << >>
    /\ wb = NoBook /\ xi = 0 /\ xlsx = NoBook

NextXL == XlStart \/ XlEntry \/ XlSave

SpecXL == InitXL /\ [][NextXL]_vars

----------------------------------------------------------------------------
\* Properties

AllNon200(rs) == \A i \in 1..Len(rs) : ~rs[i].raised /\ rs[i].status_code # 200

\* the first attempt that is answered with status 200, 0 when none is
FirstSuccess(rs) ==
    IF \E i \in 1..Len(rs) : IsSuccess(rs[i])
    THEN CHOOSE i \in 1..Len(rs) : IsSuccess(rs[i]) /\ \A j \in 1..(i - 1) : ~IsSuccess(rs[j])
    ELSE 0

\* C1: download_image called with retries = R on a URL whose every response
\* has a non-200 status makes exactly R GET attempts and then returns False.
C1_ExactlyRetriesAttempts ==
    (pc = "dlret" /\ AllNon200(responses)) =>
        /\ dl.attempts = dl.retries
        /\ dl.result = "False"

C1_Witness ==
    /\ pc = "dlret"
    /\ dl.retries = 2
    /\ AllNon200(responses)
    /\ dl.attempts = 2
    /\ dl.result = "False"

\* C2: when the first N-1 attempts fail and the Nth returns status 200, with
\* 1 <= N <= retries, download_image returns True after exactly N attempts
\* and the target path holds the content of the Nth response.
C2_SuccessOnNthAttempt ==
    (pc = "dlret" /\ FirstSuccess(responses) >= 1) =>
        /\ dl.result = "True"
        /\ dl.attempts = FirstSuccess(responses)
        /\ fs[dl.filename] = responses[FirstSuccess(responses)].content

\* C3: download_image never raises: whatever the attempts do, the call ends
\* by returning True or False.
C3_NeverRaises ==
    pc = "dlret" => dl.result \in {"True", "False"}

RECURSIVE SumN(_)
SumN(evs) == IF evs = << >> THEN 0 ELSE Head(evs).n + SumN(Tail(evs))

IsCards(e) == e.op = "cards"
IsGet(e) == e.op = "get"

\* the cards found on the pages visited so far, and those dealt with
Encountered == SumN(SelectSeq(log, IsCards))
Processed == tally["none"] + tally["True"] + tally["False"] + tally["raised"]

ScrapeReturned == pc \in {"xl", "xlrow", "xlret", "xlraised"} \/ (pc = "end" /\ wb # NoBook)

\* C4: when scrape_olx returns, every card encountered has been dealt with, the
\* result has at most as many records as cards encountered and exactly as
\* many as cards for which download_image returned True; while it runs, the
\* records so far are exactly the downloads that returned True so far.
C4_RecordsAreSuccessfulDownloads ==
    /\ Len(data) = tally["True"]
    /\ Len(fetched) = Len(data)
    /\ Processed <= Encountered
    /\ ScrapeReturned => Processed = Encountered /\ Len(data) <= Encountered

C4_Witness ==
    /\ pc = "xl"
    /\ Encountered = 2
    /\ Len(data) = 1
    /\ tally["False"] = 1

\* C5: after driver startup no failure aborts the run: a run whose browser
\* was started always gets to the export step.
C5_RunReachesExport ==
    (pc = "end" /\ driver = "quit") => wb # NoBook

Requests == LET gets == SelectSeq(log, IsGet)
            IN  [i \in 1..Len(gets) |-> gets[i].url]

\* C6: if the pagination element is absent or its last item reads 1, exactly
\* one page is loaded: the link is requested once and no '&page=' URL ever is.
C6_OnePageOneRequest ==
    pagination \in {Absent, Found(<<"1">>)} =>
        /\ Requests = <<websitelink>>
        /\ ScrapeReturned => Len(SelectSeq(log, IsCards)) = 1 /\ Processed = Encountered

C6_Witness ==
    /\ pc = "end"
    /\ pagination = Found(<<"1">>)
    /\ xlsx # NoBook
    /\ Len(data) = 1

\* C7: at export every record has its own image file: no two records share
\* an image path, and the file at a record's path holds the bytes downloaded
\* for that record.
C7_OneImageFilePerListing ==
    pc = "xl" =>
        /\ \A i, j \in 1..Len(data) : i # j => data[i].ImageFile # data[j].ImageFile
        /\ \A i \in 1..Len(data) : fs[data[i].ImageFile] = fetched[i]

RequestFor(k) == IF k = 1 THEN <<"link">> ELSE <<"link", "&page=">> \o ToText(k)

RECURSIVE PageTrace(_, _)
\* what a run over pages k..P does: each page is requested, its cards are
\* looked up, its card loop finishes
PageTrace(k, P) ==
    IF k > P THEN << >>
    ELSE << <<"get", RequestFor(k)>>, <<"cards", k>>, <<"done", k>> >> \o PageTrace(k + 1, P)

Skeleton == [i \in 1..Len(log) |->
                IF log[i].op = "get" THEN <<"get", log[i].url>>
                ELSE <<log[i].op, log[i].page>>]

\* the card loop of a page went through all the cards found on it
AllCardsDone(i) == log[i].op = "done" => log[i].n = log[i - 1].n

\* C9: when the pagination element reports P >= 1 pages and scrape_olx
\* returns, it has processed pages 1..P once each in increasing order; page
\* k > 1 was requested once, with page=k, after all cards of page k-1 were
\* processed, and page P+1 was never requested.
C9_PagesInOrder ==
    LET P == ParseInt(pagination.text)
    IN  (pagination.present /\ P >= 1) =>
            /\ \A i \in 1..Len(Requests) : \E k \in 1..P : Requests[i] = RequestFor(k)
            /\ \A i, j \in 1..Len(Requests) : i # j => Requests[i] # Requests[j]
            /\ \E n \in 0..Len(PageTrace(1, P)) : Skeleton = SubSeq(PageTrace(1, P), 1, n)
            /\ \A i \in 2..Len(log) : AllCardsDone(i)
            /\ ScrapeReturned => Skeleton = PageTrace(1, P)

C9_Witness ==
    /\ pc = "xl"
    /\ pagination = Found(<<"2">>)
    /\ Requests = <<websitelink, <<"link", "&page=", "2">> >>
    /\ Len(data) = 2

ScrapeRaised == exc \in {"TimeoutException", "ValueError"}

\* C10: once the driver has started, driver.quit is eventually called, and
\* exactly once, whether scraping and export succeed or one of them raises;
\* the spreadsheet is written only after scrape_olx returned, so a run whose
\* scrape raised has no spreadsheet.
C10_QuitOnceExportAfterScrape ==
    /\ [](quits <= 1)
    /\ [](driver = "started" => <>(driver = "quit" /\ quits = 1))
    /\ []((pc = "end" /\ driver # "none") => quits = 1)
    /\ [](xlsx # NoBook => ScrapeReturned)
    /\ [](ScrapeRaised => xlsx = NoBook /\ wb = NoBook)

C10_Witness ==
    /\ pc = "end"
    /\ quits = 1
    /\ exc = "TimeoutException"
    /\ Len(data) = 1
    /\ xlsx = NoBook

====
